---- MODULE Spec2Model ----
(***************************************************************************)
(* State-machine model of the WebGPU ReSTIR renderer: the renderer         *)
(* component (FireRenderer: GPU initialisation, shader compilation, the    *)
(* frame loop, capture / recording, pointer input, parameters) and the     *)
(* host application's debounced shader editing.                            *)
(*                                                                         *)
(* Every action is one JavaScript task: an event handler, a timer          *)
(* callback, a requestAnimationFrame callback, or the continuation of an   *)
(* await.  Tasks run to completion, so each is one atomic step.            *)
(***************************************************************************)
EXTENDS Integers, Sequences, FiniteSets, TLC

\* ---------------------------------------------------------------- bounds
MaxFrame == 3        \* frames accumulated without a reset that the model follows
MaxInFlight == 2     \* compilePipeline calls awaiting getCompilationInfo at once
MaxRecorders == 2    \* MediaRecorder objects created by startVideo
MaxRecFrames == 3    \* frames rendered in recording mode after one startVideo
MaxStills == 2       \* still images downloaded
MaxLoads == 2        \* loadTexture calls in flight at once
MaxTime == 1200      \* last instant of the debounce clock, in ms
MaxParams == 3       \* parameters in a list passed to calculateUniformLayout
MaxWired == 6        \* parameters in a list the component is wired with
MaxM == 3            \* sample count M of a reservoir passed to combine_reservoirs
MaxStoredM == 61     \* largest sample count a texel of a history texture holds

\* ------------------------------------------------------- program constants
DebounceMs == 500            \* setTimeout delay of handleCodeChange
CaptureW == 3840
CaptureH == 2160
RecordW == 1920
RecordH == 1080
STANDARD_HEADER_SIZE == 48
TOTAL_BUFFER_SIZE == 128

\* absent values (null refs), one per type
None == "none"
NoPipeline == [module |-> None, entryPoint |-> None]
NoTexture == [label |-> None, size |-> [w |-> 0, h |-> 0]]
NoConfig == [fps |-> 0, duration |-> 0]
NoTimer == [code |-> None, deadline |-> 0]
NoError == [type |-> None, code |-> None, msg |-> 0]
NoFile == [emitted |-> FALSE, chunks |-> << >>]
\* the default 64 x 64 noise texture
NoiseTexture == [label |-> "noise", size |-> [w |-> 64, h |-> 64]]

Size(w, h) == [w |-> w, h |-> h]
CaptureSize == Size(CaptureW, CaptureH)
RecordSize == Size(RecordW, RecordH)
\* width and height of a canvas element that was never sized
DefaultCanvasSize == Size(300, 150)
\* window.devicePixelRatio || 1 on the modelled display
Dpr == 1
\* amounts by which the debounce clock advances between tasks, in ms
Delays == {100, 400}
\* CSS sizes the canvas element can have on screen
ClientSizes == {Size(800, 600), Size(1024, 768)}

\* Shader sources the editor can submit, and the diagnostics
\* getCompilationInfo() reports for each (severity of every message)
Sources == {"boiler", "warn", "bad"}
Messages(code) ==
    CASE code = "boiler" -> << >>
      [] code = "warn" -> <<"warning">>
      [] code = "bad" -> <<"warning", "error", "error">>
BOILERPLATE_SHADER_WGSL == "boiler"

\* VideoConfig values of the export dialog (fps, duration in seconds)
Configs == {[fps |-> 1, duration |-> 1], [fps |-> 2, duration |-> 1]}

\* wall-clock values of (time - startTimeRef.current), in ms
WallTimes == {7, 1000}

\* a rational number num / den
Rat(n, d) == [num |-> n, den |-> d]
RatEq(a, b) == a.num * b.den = b.num * a.den
RatGeq(a, b) == a.num * b.den >= b.num * a.den
RatLess(a, b) == a.num * b.den < b.num * a.den
Max(a, b) == IF a >= b THEN a ELSE b
Min(a, b) == IF a <= b THEN a ELSE b

VARIABLES
    \* ---- host application (App)
    shaderCode,          \* useState(BOILERPLATE_SHADER_WGSL)
    timeoutRef,          \* pending debounce timer: NoTimer or [code, deadline]
    now,                 \* clock, ms
    error,               \* App's error state, driven by onError / onClearError
    recordingStatus,     \* App's state driven by onRecordProgress
    \* ---- renderer: GPU objects
    initPc,              \* position of initWebGPU
    isMountedRef,
    deviceRef, contextRef, uniformBufferRef, defaultNoiseTextureRef,
    integratorPipelineRef, displayPipelineRef,
    compiling,           \* compilePipeline calls suspended at their await
    requestRef,          \* TRUE while a requestAnimationFrame(render) is pending
    \* ---- renderer: frame state
    frameIndexRef,
    canvas,              \* canvas.width / canvas.height
    clientSize,          \* canvas.clientWidth / clientHeight
    historyTextureARef, historyTextureBRef,
    capturePendingRef,
    cameraState, mouseState,
    \* ---- renderer: recording
    recorderRef, recorders, chunksRef, recordingConfigRef,
    isRecordingRef, recordedFramesRef,
    stills,              \* number of still images downloaded
    sessionFrames,       \* frames rendered in recording mode since the last
                         \* startVideo (observation, not read by the program)
    \* ---- renderer: parameters
    params, paramsRef,
    \* ---- observation of the last callback of the frame loop
    frame,
    \* ---- renderer: the user texture and the loadTexture calls in flight
    userTextureRef, loading,
    \* ---- a call of the exported function calculateUniformLayout: its
    \* arguments and, once it has returned, its result
    layoutCall,
    \* ---- the uniform pack of a frame for a component wired with another
    \* parameter list: the list and, once packed, the uniform data
    packCall,
    \* ---- a call of the shader function combine_reservoirs: its arguments
    \* and, once it has returned, the reservoir it leaves in *r
    reservoirCall,
    \* ---- one invocation of the integrator's fragment shader (fs_main): the
    \* pixel, the inputs it reads and, once it has returned, what it did
    pixelCall

appVars == <<shaderCode, timeoutRef, now, error, recordingStatus>>
gpuVars == <<initPc, isMountedRef, deviceRef, contextRef, uniformBufferRef,
             defaultNoiseTextureRef, integratorPipelineRef, displayPipelineRef,
             compiling, requestRef>>
frameVars == <<frameIndexRef, canvas, clientSize, historyTextureARef,
               historyTextureBRef, capturePendingRef, cameraState, mouseState>>
recVars == <<recorderRef, recorders, chunksRef, recordingConfigRef,
             isRecordingRef, recordedFramesRef, stills, sessionFrames>>
paramVars == <<params, paramsRef>>
texVars == <<userTextureRef, loading>>
fnVars == <<layoutCall, packCall, reservoirCall, pixelCall>>
vars == <<appVars, gpuVars, frameVars, recVars, paramVars, frame, texVars,
          fnVars>>
\* ------------------------------------------------------------ parameters
\* The initial parameter list; values are in hundredths (0.8 is 80).
\* (mutant) the initial list without its debugMode entry
InitialParamsNoDebug ==
    << [id |-> "animSpeed",          type |-> "float", value |-> 80],
       [id |-> "boxRoughness",       type |-> "float", value |-> 10],
       [id |-> "indirectIntensity",  type |-> "float", value |-> 180],
       [id |-> "grainStrength",      type |-> "float", value |-> 50],
       [id |-> "baseColor",          type |-> "color", value |-> <<80, 85, 100>>],
       [id |-> "lightAz",            type |-> "float", value |-> 90],
       [id |-> "lightEl",            type |-> "float", value |-> 20],
       [id |-> "aberrationStrength", type |-> "float", value |-> 2] >>

InitialParams ==
    << [id |-> "animSpeed",          type |-> "float", value |-> 80],
       [id |-> "boxRoughness",       type |-> "float", value |-> 10],
       [id |-> "indirectIntensity",  type |-> "float", value |-> 180],
       [id |-> "grainStrength",      type |-> "float", value |-> 50],
       [id |-> "baseColor",          type |-> "color", value |-> <<80, 85, 100>>],
       [id |-> "lightAz",            type |-> "float", value |-> 90],
       [id |-> "lightEl",            type |-> "float", value |-> 20],
       [id |-> "aberrationStrength", type |-> "float", value |-> 2],
       [id |-> "debugMode",          type |-> "float", value |-> 0] >>

IsVec(type) == type = "color" \/ type = "vec3"
Alignment(type) == IF IsVec(type) THEN 16 ELSE 4
ByteSize(type) == IF IsVec(type) THEN 16 ELSE 4
\* (mutant) an offset that is aligned already is padded by a whole alignment
PadToNext(offset, alignment) == alignment - (offset % alignment)

PadTo(offset, alignment) == (alignment - (offset % alignment)) % alignment

\* the forEach of calculateUniformLayout over ps[i..], from running offset cur
RECURSIVE LayoutFrom(_, _, _, _)
LayoutFrom(ps, i, cur, map) ==
    IF i > Len(ps) THEN [cur |-> cur, offsetMap |-> map]
    ELSE LET at == cur + PadTo(cur, Alignment(ps[i].type))
             m2 == [k \in (DOMAIN map) \cup {ps[i].id} |->
                        IF k = ps[i].id THEN at ELSE map[k]]
         IN  LayoutFrom(ps, i + 1, at + ByteSize(ps[i].type), m2)

calculateUniformLayout(ps, startOffset) ==
    LET r == LayoutFrom(ps, 1, startOffset, << >>)
    IN  [size |-> r.cur + PadTo(r.cur, 16), offsetMap |-> r.offsetMap]

\* uniformData right after `new Float32Array(TOTAL_BUFFER_SIZE / 4)`
ZeroUniforms == [i \in 0 .. (TOTAL_BUFFER_SIZE \div 4) - 1 |-> 0]

\* One element store of a Float32Array: an index outside the array (or an
\* index that is no number, modelled as -1) stores nothing.
StoreFloat(data, idx, v) ==
    IF idx \in DOMAIN data THEN [data EXCEPT ![idx] = v] ELSE data

RECURSIVE WriteFrom(_, _, _, _)
WriteFrom(data, ps, i, lay) ==
    IF i > Len(ps) THEN data
    ELSE LET p == ps[i]
             floatOffset == IF p.id \in DOMAIN lay.offsetMap
                            THEN lay.offsetMap[p.id] \div 4 ELSE -1
             d2 == IF p.type = "float" THEN StoreFloat(data, floatOffset, p.value)
                   ELSE IF floatOffset = -1 THEN data
                   ELSE StoreFloat(StoreFloat(StoreFloat(data,
                            floatOffset, p.value[1]),
                            floatOffset + 1, p.value[2]),
                            floatOffset + 2, p.value[3])
         IN  WriteFrom(d2, ps, i + 1, lay)

\* (mutant) colour and vec3 parameters are skipped
writeFloatParamsToBuffer(data, ps, lay) ==
    WriteFrom(data, SelectSeq(ps, LAMBDA q : q.type = "float"), 1, lay)

writeParamsToBuffer(data, ps, lay) == WriteFrom(data, ps, 1, lay)

\* `layout` as the frame loop sees it: render is the closure of the first
\* component render, so its layout is the one of the initial list.
layout == calculateUniformLayout(InitialParams, STANDARD_HEADER_SIZE)
\* ---- calls of calculateUniformLayout as an exported function
ParamTypes == {"float", "color", "vec3"}
ParamIds == <<"a", "b", "c", "d", "e", "f", "g">>
ValueOf(type) == IF type = "float" THEN 1 ELSE <<1, 1, 1>>
\* parameter lists of up to max parameters with distinct ids
ListsUpTo(max) ==
    UNION {{[i \in 1 .. n |-> [id |-> ParamIds[i], type |-> t[i],
                               value |-> ValueOf(t[i])]] :
                t \in [1 .. n -> ParamTypes]} : n \in 0 .. max}
ParamLists == ListsUpTo(MaxParams)
StartOffsets == {0, 4, 6, 20, 48}
NoLayout == [size |-> -1, offsetMap |-> << >>]
NoLayoutCall == [params |-> << >>, startOffset |-> -1, result |-> NoLayout]
LayoutCalls ==
    {[params |-> ps, startOffset |-> start, result |-> NoLayout] :
        ps \in ParamLists, start \in StartOffsets}

\* the call returns
LayoutReturn ==
    /\ layoutCall # NoLayoutCall
    /\ layoutCall.result = NoLayout
    /\ layoutCall' = [layoutCall EXCEPT !.result =
                          calculateUniformLayout(layoutCall.params,
                                                 layoutCall.startOffset)]
    /\ UNCHANGED <<appVars, gpuVars, frameVars, recVars, paramVars, frame,
                   texVars, packCall, reservoirCall, pixelCall>>

\* ---- the uniform pack of render for a component wired with the list ps
\* in place of InitialParams: the layout of the component body and the
\* writeParamsToBuffer call of render
packUniforms(ps) ==
    writeParamsToBuffer(ZeroUniforms, ps,
                        calculateUniformLayout(ps, STANDARD_HEADER_SIZE))
NoPack == << >>
NoPackCall == [params |-> << >>, wired |-> FALSE, result |-> NoPack]
PackCalls ==
    {[params |-> ps, wired |-> TRUE, result |-> NoPack] : ps \in ListsUpTo(MaxWired)}

\* a frame packs the parameters
PackReturn ==
    /\ packCall.wired
    /\ packCall.result = NoPack
    /\ packCall' = [packCall EXCEPT !.result = packUniforms(packCall.params)]
    /\ UNCHANGED <<appVars, gpuVars, frameVars, recVars, paramVars, frame,
                   texVars, layoutCall, reservoirCall, pixelCall>>

\* ------------------------------------------------- shader: reservoirs
\* Weights are counted in millionths, so that the shader's thresholds are
\* whole numbers: 1e-6 is 1 and 0.1 is 100000.  The radiance sample y is a
\* label.  M is a whole number (the shader keeps it in an f32, which is
\* exact for the counts that occur).
DegenerateW == 1
MinClampW == 100000
ClampFactor == 15

\* fn update_reservoir: stream one candidate x of weight w into r
update_reservoir(r, x, w, randVal) ==
    LET w_sum == r.w_sum + w
        M == r.M + 1
    IN  IF w_sum <= DegenerateW THEN [y |-> x, w_sum |-> w_sum, M |-> M]
        ELSE IF RatLess(randVal, Rat(w, w_sum))
             THEN [y |-> x, w_sum |-> w_sum, M |-> M]
             ELSE [y |-> r.y, w_sum |-> w_sum, M |-> M]

\* (mutant) the incoming reservoir is streamed in as one candidate
combineAsCandidate(r, other, randVal) ==
    update_reservoir(r, other.y, other.w_sum, randVal)

\* (mutant) the weight of the incoming reservoir is added unclamped
combineUnclamped(r, other, randVal) ==
    LET M == r.M + other.M
        w_sum == r.w_sum + other.w_sum
    IN  IF w_sum <= DegenerateW THEN [y |-> other.y, w_sum |-> w_sum, M |-> M]
        ELSE IF RatLess(randVal, Rat(other.w_sum, w_sum))
             THEN [y |-> other.y, w_sum |-> w_sum, M |-> M]
             ELSE [y |-> r.y, w_sum |-> w_sum, M |-> M]

\* (mutant) the draw replaces the sample when it equals the ratio, too
combineDrawNotStrict(r, other, randVal) ==
    LET maxW == Max(r.w_sum * ClampFactor, MinClampW)
        otherW == Min(other.w_sum, maxW)
        M == r.M + other.M
        w_sum == r.w_sum + otherW
    IN  IF w_sum <= DegenerateW THEN [y |-> other.y, w_sum |-> w_sum, M |-> M]
        ELSE IF ~RatLess(Rat(otherW, w_sum), randVal)
             THEN [y |-> other.y, w_sum |-> w_sum, M |-> M]
             ELSE [y |-> r.y, w_sum |-> w_sum, M |-> M]

\* fn combine_reservoirs: merge the reservoir other into r
combine_reservoirs(r, other, randVal) ==
    LET maxW == Max(r.w_sum * ClampFactor, MinClampW)
        otherW == Min(other.w_sum, maxW)
        M == r.M + other.M
        w_sum == r.w_sum + otherW
    IN  IF w_sum <= DegenerateW THEN [y |-> other.y, w_sum |-> w_sum, M |-> M]
        ELSE IF RatLess(randVal, Rat(otherW, w_sum))
             THEN [y |-> other.y, w_sum |-> w_sum, M |-> M]
             ELSE [y |-> r.y, w_sum |-> w_sum, M |-> M]

\* weights from 0 and 1e-6 up to 20, and random draws in [0, 1)
Weights == {0, 1, 2, 100000, 1000000, 20000000}
Draws == {Rat(0, 1), Rat(1, 2), Rat(9, 10)}
Reservoirs(y) == {[y |-> y, w_sum |-> w, M |-> m] : w \in Weights, m \in 0 .. MaxM}
NoReservoir == [y |-> "none", w_sum |-> -1, M |-> -1]
NoReservoirCall ==
    [r |-> NoReservoir, other |-> NoReservoir, randVal |-> Rat(0, 1),
     result |-> NoReservoir]
ReservoirCalls ==
    {[r |-> r, other |-> o, randVal |-> d, result |-> NoReservoir] :
        r \in Reservoirs("A"), o \in Reservoirs("B"), d \in Draws}

\* the call returns
CombineReturn ==
    /\ reservoirCall # NoReservoirCall
    /\ reservoirCall.result = NoReservoir
    /\ reservoirCall' =
           [reservoirCall EXCEPT !.result =
               combine_reservoirs(reservoirCall.r, reservoirCall.other,
                                  reservoirCall.randVal)]
    /\ UNCHANGED <<appVars, gpuVars, frameVars, recVars, paramVars, frame,
                   texVars, layoutCall, packCall, pixelCall>>

\* ------------------------------------------------ shader: integrator
\* The ReSTIR accumulation of fs_main for one pixel.  A radiance is a name
\* with its luminance in millionths; a texel is a radiance (rgb) and the
\* sample count stored in alpha; a texture is one row of texels, indexed
\* from 0; a pixel is its position x in the row.
TemporalCap == 12
SpatialCap == 8
NeighbourCount == 6

Radiance(name, lum) == [name |-> name, lum |-> lum]
Dark == Radiance("dark", 0)
Mid == Radiance("mid", 800000)
Bright == Radiance("bright", 1000000)
luminance(c) == c.lum
Texel(y, a) == [y |-> y, a |-> a]

\* textureLoad; a load outside the texture yields a zero texel
textureLoad(tex, coord) ==
    IF coord \in DOMAIN tex THEN tex[coord] ELSE Texel(Dark, 0)
textureDimensions(tex) == Cardinality(DOMAIN tex)

\* (mutant) the stored sample count is taken as it is
storedReservoirUnclamped(data, cap) ==
    [y |-> data.y, w_sum |-> luminance(data.y) * data.a, M |-> data.a]

\* rPrev / rN: the reservoir rebuilt from a texel, M clamped to cap
storedReservoir(data, cap) ==
    LET M == Min(data.a, cap)
    IN  [y |-> data.y, w_sum |-> luminance(data.y) * M, M |-> M]

\* (mutant) the neighbour coordinate is not clamped
neighborCoordUnclamped(x, offset, texDim) == x + offset

\* clamp(fragCoord + offset, 0, texDim - 1)
neighborCoord(x, offset, texDim) == Max(0, Min(x + offset, texDim - 1))

\* Edge stopping: abs(centerLum - lNeighbor) / (max(..) + 0.1) < 0.2
similar(centerLum, lNeighbor) ==
    LET d == IF centerLum >= lNeighbor THEN centerLum - lNeighbor
             ELSE lNeighbor - centerLum
    IN  d * 5 < Max(centerLum, lNeighbor) + MinClampW

\* TEMPORAL REUSE: the reservoir and the log of combines after it
temporalReuse(in, r) ==
    IF in.frameIndex > 0 /\ in.hit
    THEN LET rPrev == storedReservoir(textureLoad(in.tex, in.x), TemporalCap)
         IN  [r |-> combine_reservoirs(r, rPrev, in.rand[1]),
              combined |-> <<[pass |-> "temporal", i |-> 0, coord |-> in.x,
                              o |-> rPrev]>>]
    ELSE [r |-> r, combined |-> << >>]

\* SPATIAL REUSE: iterations i .. NeighbourCount of the loop
RECURSIVE spatialFrom(_, _, _, _)
spatialFrom(in, acc, centerLum, i) ==
    IF i > NeighbourCount THEN acc
    ELSE LET coord == neighborCoord(in.x, in.offsets[i],
                                    textureDimensions(in.tex))
             rN == storedReservoir(textureLoad(in.tex, coord), SpatialCap)
             next == IF similar(centerLum, luminance(rN.y))
                     THEN [r |-> combine_reservoirs(acc.r, rN, in.rand[i + 1]),
                           combined |-> Append(acc.combined,
                               [pass |-> "spatial", i |-> i, coord |-> coord,
                                o |-> rN])]
                     ELSE acc
         IN  spatialFrom(in, next, centerLum, i + 1)

\* fs_main from `ReSTIR ACCUMULATION` on: the reservoir of the pixel's own
\* sample, temporal reuse, spatial reuse; what is returned is the texel
\* written to the history texture.
integrate(in) ==
    LET own == [y |-> in.own, w_sum |-> luminance(in.own), M |-> 1]
        t == temporalReuse(in, own)
        centerLum == luminance(t.r.y)
        sp == IF in.hit THEN spatialFrom(in, t, centerLum, 1) ELSE t
    IN  [out |-> Texel(sp.r.y, sp.r.M), centerLum |-> centerLum,
         combined |-> sp.combined]

\* ---- inputs of a pixel
\* texels of the noise texture: random colours, alpha 255 (1.0)
NoiseTexels == {Texel(Dark, 1), Texel(Mid, 1), Texel(Bright, 1)}
\* texels of a history texture: what an earlier frame wrote
HistoryTexels ==
    {Texel(Dark, 0), Texel(Mid, 10), Texel(Bright, 10),
     Texel(Dark, MaxStoredM), Texel(Bright, MaxStoredM)}
TextureWidth == 2
TexturesOf(texels) == [0 .. TextureWidth - 1 -> texels]
\* the frame's width in pixels; the noise texture may be narrower
FrameWidth == 3
\* neighbour offsets: the first j neighbours to the left, the others to the
\* right
OffsetSeqs ==
    {[k \in 1 .. NeighbourCount |-> IF k <= j THEN -1 ELSE 1] : j \in {0, 3, 6}}
\* the draws of the temporal combine and of the six neighbour combines
RandSeqs == {[k \in 1 .. NeighbourCount + 1 |-> d] : d \in Draws}
NoResult == [out |-> Texel(Dark, -1), centerLum |-> -1, combined |-> << >>]
PixelInput(frameIndex, hit, x, own, tex, offsets, rand) ==
    [frameIndex |-> frameIndex, hit |-> hit, x |-> x, own |-> own, tex |-> tex,
     offsets |-> offsets, rand |-> rand, result |-> NoResult]
NoPixelCall ==
    PixelInput(-1, FALSE, 0, Dark, [k \in {0} |-> Texel(Dark, 0)],
               [k \in 1 .. NeighbourCount |-> 0],
               [k \in 1 .. NeighbourCount + 1 |-> Rat(0, 1)])
\* In frame 0 the input is the noise texture; in a later frame it is the
\* history texture, which has the size of the render target.
PixelCalls ==
    {PixelInput(0, hit, x, own, tex, offsets, rand) :
        hit \in BOOLEAN, x \in 0 .. FrameWidth - 1, own \in {Dark, Mid, Bright},
        tex \in TexturesOf(NoiseTexels), offsets \in OffsetSeqs,
        rand \in RandSeqs}
    \cup
    {PixelInput(1, hit, x, own, tex, offsets, rand) :
        hit \in BOOLEAN, x \in 0 .. TextureWidth - 1, own \in {Dark, Mid, Bright},
        tex \in TexturesOf(HistoryTexels), offsets \in OffsetSeqs,
        rand \in RandSeqs}

\* the fragment shader returns
PixelReturn ==
    /\ pixelCall # NoPixelCall
    /\ pixelCall.result = NoResult
    /\ pixelCall' = [pixelCall EXCEPT !.result = integrate(pixelCall)]
    /\ UNCHANGED <<appVars, gpuVars, frameVars, recVars, paramVars, frame,
                   texVars, layoutCall, packCall, reservoirCall>>

\* ------------------------------------------------------------------ Init
\* userTextureRef before any load
NoUserTexture == [file |-> "none", valid |-> FALSE]

NoFrame ==
    [n |-> 0, rendered |-> FALSE, uniformData |-> ZeroUniforms,
     capture |-> FALSE, recording |-> FALSE, recreated |-> FALSE,
     integratorPipe |-> NoPipeline, displayPipe |-> NoPipeline,
     input |-> NoTexture, source |-> NoTexture, dest |-> NoTexture,
     displayInput |-> NoTexture,
     steps |-> << >>]

\* The state once the component has mounted in a browser that has
\* navigator.gpu: refs hold their useRef initial values and initWebGPU is
\* suspended at its first await.
InitRefs ==
    /\ shaderCode = BOILERPLATE_SHADER_WGSL
    /\ timeoutRef = NoTimer
    /\ now = 0
    /\ error = NoError
    /\ recordingStatus = [isRecording |-> FALSE, timeLeft |-> Rat(0, 1)]
    /\ initPc = "adapter"
    /\ isMountedRef = TRUE
    /\ deviceRef = FALSE
    /\ contextRef = FALSE
    /\ uniformBufferRef = FALSE
    /\ defaultNoiseTextureRef = FALSE
    /\ integratorPipelineRef = NoPipeline
    /\ displayPipelineRef = NoPipeline
    /\ compiling = << >>
    /\ requestRef = FALSE
    /\ frameIndexRef = 0
    /\ canvas = DefaultCanvasSize
    /\ clientSize \in ClientSizes
    /\ historyTextureARef = NoTexture
    /\ historyTextureBRef = NoTexture
    /\ capturePendingRef = 0
    /\ cameraState = [isDragging |-> FALSE]
    /\ mouseState = [x |-> 0, isDown |-> 0]
    /\ recorderRef = 0
    /\ recorders = << >>
    /\ chunksRef = << >>
    /\ recordingConfigRef = NoConfig
    /\ isRecordingRef = FALSE
    /\ recordedFramesRef = 0
    /\ stills = 0
    /\ sessionFrames = 0
    /\ params = InitialParams
    /\ paramsRef = InitialParams
    /\ frame = NoFrame
    /\ userTextureRef = NoUserTexture
    /\ loading = << >>

NoCalls ==
    /\ layoutCall = NoLayoutCall
    /\ packCall = NoPackCall
    /\ reservoirCall = NoReservoirCall
    /\ pixelCall = NoPixelCall

Init == InitRefs /\ NoCalls

\* calculateUniformLayout is about to be called with arguments of LayoutCalls
InitLayout ==
    /\ InitRefs /\ layoutCall \in LayoutCalls
    /\ packCall = NoPackCall /\ reservoirCall = NoReservoirCall
    /\ pixelCall = NoPixelCall

\* the component is wired with a list of PackCalls
InitPack ==
    /\ InitRefs /\ packCall \in PackCalls
    /\ layoutCall = NoLayoutCall /\ reservoirCall = NoReservoirCall
    /\ pixelCall = NoPixelCall

\* combine_reservoirs is about to be called with arguments of ReservoirCalls
InitReservoir ==
    /\ InitRefs /\ reservoirCall \in ReservoirCalls
    /\ layoutCall = NoLayoutCall /\ packCall = NoPackCall
    /\ pixelCall = NoPixelCall

\* the integrator's fragment shader is about to run for a pixel of PixelCalls
InitPixel ==
    /\ InitRefs /\ pixelCall \in PixelCalls
    /\ layoutCall = NoLayoutCall /\ packCall = NoPackCall
    /\ reservoirCall = NoReservoirCall

\* ------------------------------------------------- GPU initialisation
\* requestAdapter / requestDevice resolved: the device, the configured
\* context and the uniform buffer are stored; createDefaultTexture is awaited.
InitDevice ==
    /\ initPc = "adapter"
    /\ IF ~isMountedRef
       THEN /\ initPc' = "destroyed"
            /\ UNCHANGED <<deviceRef, contextRef, uniformBufferRef>>
       ELSE /\ initPc' = "noise"
            /\ deviceRef' = TRUE
            /\ contextRef' = TRUE
            /\ uniformBufferRef' = TRUE
    /\ UNCHANGED <<appVars, isMountedRef, defaultNoiseTextureRef,
                   integratorPipelineRef, displayPipelineRef, compiling,
                   requestRef, frameVars, recVars, paramVars, frame, texVars,
                   fnVars>>

\* requestAdapter / requestDevice threw: the catch reports the error.
InitFail ==
    /\ initPc = "adapter"
    /\ initPc' = "failed"
    /\ error' = [type |-> "compilation", code |-> None, msg |-> 0]
    /\ UNCHANGED <<shaderCode, timeoutRef, now, recordingStatus, isMountedRef,
                   deviceRef, contextRef, uniformBufferRef,
                   defaultNoiseTextureRef, integratorPipelineRef,
                   displayPipelineRef, compiling, requestRef, frameVars,
                   recVars, paramVars, frame, texVars,
                   fnVars>>

\* The synchronous head of compilePipeline(device, code, context): the
\* shader module is created and getCompilationInfo() is awaited.
compileStart(code, fromInit) ==
    Append(compiling, [code |-> code, fromInit |-> fromInit])

\* The default texture is ready: the sampler is created and initWebGPU calls
\* compilePipeline with the shaderCode of the first render of the component.
InitNoise ==
    /\ initPc = "noise"
    /\ Len(compiling) < MaxInFlight
    /\ initPc' = "compile"
    /\ defaultNoiseTextureRef' = TRUE
    /\ compiling' = compileStart(BOILERPLATE_SHADER_WGSL, TRUE)
    /\ UNCHANGED <<appVars, isMountedRef, deviceRef, contextRef,
                   uniformBufferRef, integratorPipelineRef, displayPipelineRef,
                   requestRef, frameVars, recVars, paramVars, frame, texVars,
                   fnVars>>
\* --------------------------------------------------- shader compilation
RemoveAt(seq, i) == SubSeq(seq, 1, i - 1) \o SubSeq(seq, i + 1, Len(seq))

\* (mutant) only the first message is looked at
hasErrorFirstOnly(msgs) == msgs # << >> /\ msgs[1] = "error"

\* hasError after the loop over compilationInfo.messages
hasError(msgs) == \E k \in DOMAIN msgs : msgs[k] = "error"

\* the ShaderError the host holds after onError was called for every
\* message of error severity, in order: the one of the last such message
lastError(code, msgs) ==
    [type |-> "compilation", code |-> code,
     msg |-> CHOOSE k \in DOMAIN msgs :
                 /\ msgs[k] = "error"
                 /\ \A j \in DOMAIN msgs : msgs[j] = "error" => j <= k]

\* (mutant) the module is built from the shaderCode prop, not from `code`
createRenderPipelineFromProp(code, entryPoint) ==
    [module |-> shaderCode, entryPoint |-> entryPoint]

\* (mutant) the display pipeline is built from the module of the current
\* shaderCode prop, the integrator pipeline from the compiled module
createRenderPipelineMixed(code, entryPoint) ==
    [module |-> IF entryPoint = "fs_display" THEN shaderCode ELSE code,
     entryPoint |-> entryPoint]

\* a render pipeline created from a shader module and a fragment entry point
createRenderPipeline(code, entryPoint) == [module |-> code, entryPoint |-> entryPoint]

\* getCompilationInfo() of the i-th suspended compilePipeline call resolved:
\* the rest of compilePipeline runs, and when the caller is initWebGPU its
\* continuation requests the first animation frame.
CompileFinish(i) ==
    /\ i \in DOMAIN compiling
    /\ LET c == compiling[i]
           msgs == Messages(c.code)
       IN  /\ compiling' = RemoveAt(compiling, i)
           /\ IF hasError(msgs)
              THEN /\ error' = lastError(c.code, msgs)
                   /\ UNCHANGED <<integratorPipelineRef, displayPipelineRef,
                                  frameIndexRef>>
              ELSE /\ error' = NoError
                   /\ integratorPipelineRef' = createRenderPipeline(c.code, "fs_main")
                   /\ displayPipelineRef' = createRenderPipeline(c.code, "fs_display")
                   /\ frameIndexRef' = 0
           /\ IF c.fromInit
              THEN initPc' = "done" /\ requestRef' = TRUE
              ELSE UNCHANGED <<initPc, requestRef>>
    /\ UNCHANGED <<shaderCode, timeoutRef, now, recordingStatus, isMountedRef,
                   deviceRef, contextRef, uniformBufferRef,
                   defaultNoiseTextureRef, canvas, clientSize,
                   historyTextureARef, historyTextureBRef, capturePendingRef,
                   cameraState, mouseState, recVars, paramVars, frame, texVars,
                   fnVars>>

\* setShaderCode(newCode) in the host followed by the renderer's
\* useEffect[shaderCode]: React re-renders (and re-runs the effect) only when
\* the new state differs from the current one; the effect runs only in a
\* mounted renderer and compiles only when the device and the context are
\* there.
setShaderCodeEnabled(code) ==
    /\ code # shaderCode
    /\ (isMountedRef /\ deviceRef /\ contextRef)
          => Len(compiling) < MaxInFlight

setShaderCode(code) ==
    /\ shaderCode' = code
    /\ compiling' = IF isMountedRef /\ deviceRef /\ contextRef
                    THEN compileStart(code, FALSE)
                    ELSE compiling

\* The host changes the shaderCode prop (the debounce timer of the editor
\* fired; see TimerFire for the timed version).
ShaderCodeChange(code) ==
    /\ setShaderCodeEnabled(code)
    /\ setShaderCode(code)
    /\ UNCHANGED <<timeoutRef, now, error, recordingStatus, initPc,
                   isMountedRef, deviceRef, contextRef, uniformBufferRef,
                   defaultNoiseTextureRef, integratorPipelineRef,
                   displayPipelineRef, requestRef, frameVars, recVars,
                   paramVars, frame, texVars,
                   fnVars>>
\* ------------------------------------------------------------ frame loop
\* (mutant) a recording takes priority over a pending capture
outputSizeRecordFirst(capturePending, isRecording, client) ==
    IF isRecording THEN RecordSize
    ELSE IF capturePending > 0 THEN CaptureSize
    ELSE Size(client.w * Dpr, client.h * Dpr)

\* CANVAS SIZING: the width and height the frame is rendered at
outputSize(capturePending, isRecording, client) ==
    IF capturePending > 0 THEN CaptureSize
    ELSE IF isRecording THEN RecordSize
    ELSE Size(client.w * Dpr, client.h * Dpr)

\* (mutant) only missing textures are noticed, not a size mismatch
needsResizeTexturesOnly(cv, target, texA, texB) ==
    texA = NoTexture \/ texB = NoTexture

\* the condition under which the history textures are (re)created
needsResize(cv, target, texA, texB) ==
    cv # target \/ texA = NoTexture \/ texB = NoTexture

createHistoryTexture(label, size) == [label |-> label, size |-> size]

\* (mutant) the wall clock is used in recording mode too
elapsedWallClock(rec, recordedFrames, config, time) == Rat(time, 1000)

\* elapsedTime fed to the shaders: wall clock, or frameCount / fps
elapsedTimeOf(rec, recordedFrames, config, time) ==
    IF rec THEN Rat(recordedFrames, config.fps) ELSE Rat(time, 1000)

\* Math.max(0, duration - elapsedTime)
timeLeftOf(duration, elapsed) ==
    Rat(Max(0, duration * elapsed.den - elapsed.num), elapsed.den)

\* elapsedTime >= duration
durationReached(elapsed, duration) == RatGeq(elapsed, Rat(duration, 1))

\* recorderRef.current && recorderRef.current.state === 'recording'
recorderIsRecording ==
    recorderRef # 0 /\ recorders[recorderRef].state = "recording"

\* MediaRecorder.stop(): the state becomes inactive at once; a dataavailable
\* event and then a stop event are queued.
stopRecorder(recs, r) == [recs EXCEPT ![r].state = "stopping"]

\* (mutant) the source history texture is bound in frame 0 as well
integratorInputHistory(frameIndex, sourceTexture) == sourceTexture

\* binding 1 of the integrator bind group
integratorInput(frameIndex, sourceTexture) ==
    IF frameIndex = 0 THEN NoiseTexture ELSE sourceTexture

\* the header of uniformData; camera and pointer positions are symbolic
uniformHeader(size, elapsed, frameIndex, mouse) ==
    [ZeroUniforms EXCEPT ![0] = size.w, ![1] = size.h, ![2] = elapsed,
                         ![3] = frameIndex, ![4] = "cx", ![5] = "cy",
                         ![6] = "cz", ![8] = mouse.x, ![9] = "my",
                         ![10] = mouse.isDown]

\* (mutant) the display pass samples the source history texture
displayInputSource(sourceTexture, destTexture) == sourceTexture

\* binding 1 of the display bind group
displayInput(sourceTexture, destTexture) == destTexture

\* PING-PONG SWAP: the new contents of slots A and B
pingPongSwap(texA, texB) == [a |-> texB, b |-> texA]

\* The statements of render in the order the callback executes them, for
\* a frame that recreates the history textures (resize), services a
\* recording (rec) and services a capture request (cap).
renderSteps(resize, rec, cap) ==
    (IF resize THEN <<"recreateHistory">> ELSE << >>)
    \o (IF rec THEN <<"serviceRecording">> ELSE << >>)
    \o <<"writeUniforms", "encodeIntegrator", "encodeDisplay", "submit",
         "swap", "incrementFrameIndex">>
    \o (IF cap THEN <<"serviceCapture">> ELSE << >>)

\* the negation of render's early-return condition
\* canvasRef.current: React attaches the canvas element while the component
\* is mounted and detaches it in the commit that runs the effect cleanup
canvasRef == isMountedRef

pipelinesReady ==
    /\ deviceRef /\ contextRef /\ uniformBufferRef
    /\ integratorPipelineRef # NoPipeline /\ displayPipelineRef # NoPipeline

\* One requestAnimationFrame callback: render(time).  `time` is the wall
\* clock relative to startTimeRef.  The audio analyser is never attached in
\* this model, so the audio level written to float 31 is 0.
Render(time) ==
    /\ requestRef
    /\ IF ~pipelinesReady
       THEN UNCHANGED vars
       ELSE IF ~canvasRef
       THEN \* canvas is null: reading its size throws, nothing is
            \* rescheduled
            /\ requestRef' = FALSE
            /\ UNCHANGED <<appVars, initPc, isMountedRef, deviceRef,
                           contextRef, uniformBufferRef,
                           defaultNoiseTextureRef, integratorPipelineRef,
                           displayPipelineRef, compiling, frameVars, recVars,
                           paramVars, frame, texVars, fnVars>>
       ELSE LET target == outputSize(capturePendingRef, isRecordingRef, clientSize)
                resize == needsResize(canvas, target, historyTextureARef,
                                      historyTextureBRef)
                texA == IF resize THEN createHistoryTexture("t1", target)
                        ELSE historyTextureARef
                texB == IF resize THEN createHistoryTexture("t2", target)
                        ELSE historyTextureBRef
                fi == IF resize THEN 0 ELSE frameIndexRef
                rec == isRecordingRef /\ recordingConfigRef # NoConfig
                elapsed == elapsedTimeOf(rec, recordedFramesRef,
                                         recordingConfigRef, time)
                header == uniformHeader(target, elapsed, fi, mouseState)
                packed == writeParamsToBuffer(header, paramsRef, layout)
                uniformData == [packed EXCEPT ![31] = 0]
            IN  /\ fi < MaxFrame
                /\ rec => recordedFramesRef < MaxRecFrames
                /\ canvas' = target
                /\ IF rec
                   THEN /\ recordedFramesRef' = recordedFramesRef + 1
                        /\ recordingStatus' =
                               [isRecording |-> TRUE,
                                timeLeft |-> timeLeftOf(recordingConfigRef.duration,
                                                        elapsed)]
                        /\ recorders' =
                               IF durationReached(elapsed, recordingConfigRef.duration)
                                  /\ recorderIsRecording
                               THEN stopRecorder(recorders, recorderRef)
                               ELSE recorders
                   ELSE UNCHANGED <<recordedFramesRef, recordingStatus, recorders>>
                /\ sessionFrames' = IF isRecordingRef THEN sessionFrames + 1
                                    ELSE sessionFrames
                /\ frame' = [n |-> 1 - frame.n, rendered |-> TRUE,
                             uniformData |-> uniformData,
                             capture |-> capturePendingRef > 0,
                             recording |-> isRecordingRef,
                             recreated |-> resize,
                             integratorPipe |-> integratorPipelineRef,
                             displayPipe |-> displayPipelineRef,
                             input |-> integratorInput(fi, texA),
                             source |-> texA,
                             dest |-> texB,
                             displayInput |-> displayInput(texA, texB),
                             steps |-> renderSteps(resize, rec,
                                                   capturePendingRef > 0)]
                \* PING-PONG SWAP
                /\ historyTextureARef' = pingPongSwap(texA, texB).a
                /\ historyTextureBRef' = pingPongSwap(texA, texB).b
                /\ frameIndexRef' = fi + 1
                /\ IF capturePendingRef > 0
                   THEN stills' = stills + 1 /\ capturePendingRef' = 0
                   ELSE UNCHANGED <<stills, capturePendingRef>>
                /\ UNCHANGED <<shaderCode, timeoutRef, now, error, gpuVars,
                               clientSize, cameraState, mouseState,
                               recorderRef, chunksRef, recordingConfigRef,
                               isRecordingRef, paramVars, texVars, fnVars>>
\* ------------------------------------------------------------- teardown
\* The cleanup of the mount effect: the renderer is unmounted, the pending
\* animation frame is cancelled.  Suspended initWebGPU and compilePipeline
\* calls stay suspended and resume later.
Unmount ==
    /\ isMountedRef
    /\ isMountedRef' = FALSE
    /\ requestRef' = FALSE
    /\ UNCHANGED <<appVars, initPc, deviceRef, contextRef, uniformBufferRef,
                   defaultNoiseTextureRef, integratorPipelineRef,
                   displayPipelineRef, compiling, frameVars, recVars,
                   paramVars, frame, texVars, fnVars>>

\* --------------------------------------------------------- pointer input
\* the canvas element is laid out at another CSS size
Resize(size) ==
    /\ size # clientSize
    /\ clientSize' = size
    /\ UNCHANGED <<appVars, gpuVars, frameIndexRef, canvas, historyTextureARef,
                   historyTextureBRef, capturePendingRef, cameraState,
                   mouseState, recVars, paramVars, frame, texVars,
                   fnVars>>

handlePointerDown ==
    /\ IF isRecordingRef
       THEN UNCHANGED <<cameraState, mouseState>>
       ELSE /\ cameraState' = [cameraState EXCEPT !.isDragging = TRUE]
            /\ mouseState' = [mouseState EXCEPT !.isDown = 1]
    /\ UNCHANGED <<appVars, gpuVars, frameIndexRef, canvas, clientSize,
                   historyTextureARef, historyTextureBRef, capturePendingRef,
                   recVars, paramVars, frame, texVars,
                   fnVars>>

\* horizontal pointer positions relative to the canvas (e.clientX - rect.left)
PointerXs == {0, 1}

\* theta, phi and the vertical pointer position change as well; the model
\* keeps them symbolic (see uniformHeader)
handlePointerMove(x) ==
    /\ mouseState' = [mouseState EXCEPT !.x = x]
    /\ frameIndexRef' = IF cameraState.isDragging THEN 0 ELSE frameIndexRef
    /\ UNCHANGED <<appVars, gpuVars, canvas, clientSize, historyTextureARef,
                   historyTextureBRef, capturePendingRef, cameraState,
                   recVars, paramVars, frame, texVars,
                   fnVars>>

handlePointerUp ==
    /\ cameraState' = [cameraState EXCEPT !.isDragging = FALSE]
    /\ mouseState' = [mouseState EXCEPT !.isDown = 0]
    /\ UNCHANGED <<appVars, gpuVars, frameIndexRef, canvas, clientSize,
                   historyTextureARef, historyTextureBRef, capturePendingRef,
                   recVars, paramVars, frame, texVars,
                   fnVars>>

handleWheel ==
    /\ frameIndexRef' = 0
    /\ UNCHANGED <<appVars, gpuVars, canvas, clientSize, historyTextureARef,
                   historyTextureBRef, capturePendingRef, cameraState,
                   mouseState, recVars, paramVars, frame, texVars,
                   fnVars>>

\* ------------------------------------------------------- user texture
\* image files the host passes to loadTexture; NullFile is a missing file
NullFile == "null"
ImageFiles == {"image1", "image2", NullFile}

\* How a load ends once createImageBitmap has settled:
\*   "decodeRejects"  createImageBitmap rejects;
\*   "uploadThrows"   createTextureFromImage throws (copyExternalImageToTexture
\*                    raises an exception for an unusable source);
\*   "uploadInvalid"  createTexture or the copy fails GPU validation (an
\*                    image beyond the device's texture limits): WebGPU
\*                    reports that as an error on the device, not as an
\*                    exception, and createTexture returns an invalid texture;
\*   "ok"             the texture was created and filled.
LoadOutcomes == {"decodeRejects", "uploadThrows", "uploadInvalid", "ok"}
\* the outcomes in which the decode or the upload failed
LoadFailures == LoadOutcomes \ {"ok"}

\* loadTexture(file) up to its first await
loadTexture(file) ==
    /\ Len(loading) < MaxLoads
    /\ loading' = IF ~deviceRef \/ file = NullFile THEN loading
                  ELSE Append(loading, file)
    /\ UNCHANGED <<appVars, gpuVars, frameVars, recVars, paramVars, frame,
                   userTextureRef, fnVars>>

\* createImageBitmap of the i-th load in flight settles and loadTexture runs
\* to its end: createTextureFromImage has no await of its own, so the upload
\* and the assignment follow in the same task.
loadTextureDone(i, outcome) ==
    /\ i \in DOMAIN loading
    /\ loading' = RemoveAt(loading, i)
    /\ userTextureRef' =
           IF outcome \in {"decodeRejects", "uploadThrows"} THEN userTextureRef
           ELSE [file |-> loading[i], valid |-> outcome = "ok"]
    /\ UNCHANGED <<appVars, gpuVars, frameVars, recVars, paramVars, frame,
                   fnVars>>

\* ------------------------------------------------- capture and recording
\* qualities the host's Render menu passes to capture()
Qualities == {1, 2}

capture(quality) ==
    /\ stills + (IF capturePendingRef > 0 THEN 1 ELSE 0) < MaxStills
    /\ capturePendingRef' = quality
    /\ UNCHANGED <<appVars, gpuVars, frameIndexRef, canvas, clientSize,
                   historyTextureARef, historyTextureBRef, cameraState,
                   mouseState, recVars, paramVars, frame, texVars,
                   fnVars>>

\* a MediaRecorder right after start()
newRecorder == [state |-> "recording", file |-> NoFile]

startVideo(config) ==
    /\ Len(recorders) < MaxRecorders
    /\ recordingConfigRef' = config
    /\ chunksRef' = << >>
    /\ recordedFramesRef' = 0
    /\ canvas' = RecordSize
    /\ recorders' = Append(recorders, newRecorder)
    /\ recorderRef' = Len(recorders) + 1
    /\ isRecordingRef' = TRUE
    /\ sessionFrames' = 0
    /\ UNCHANGED <<appVars, gpuVars, frameIndexRef, clientSize,
                   historyTextureARef, historyTextureBRef, capturePendingRef,
                   cameraState, mouseState, stills, paramVars, frame, texVars,
                   fnVars>>

stopVideo ==
    /\ recorders' = IF recorderIsRecording
                    THEN stopRecorder(recorders, recorderRef)
                    ELSE recorders
    /\ UNCHANGED <<appVars, gpuVars, frameVars, recorderRef, chunksRef,
                   recordingConfigRef, isRecordingRef, recordedFramesRef,
                   stills, sessionFrames, paramVars, frame, texVars,
                   fnVars>>

\* ondataavailable of recorder r.  start() was called without a timeslice,
\* so the recorder delivers its data once, after stop(), before its stop
\* event; the blob may be empty.
ondataavailable(r, size) ==
    /\ r \in DOMAIN recorders
    /\ recorders[r].state = "stopping"
    /\ recorders' = [recorders EXCEPT ![r].state = "flushed"]
    /\ chunksRef' = IF size > 0 THEN Append(chunksRef, [by |-> r]) ELSE chunksRef
    /\ UNCHANGED <<appVars, gpuVars, frameVars, recorderRef,
                   recordingConfigRef, isRecordingRef, recordedFramesRef,
                   stills, sessionFrames, paramVars, frame, texVars,
                   fnVars>>

\* onstop of recorder r: the chunks chunksRef holds now are downloaded as
\* one file and recording mode is left.
onstop(r) ==
    /\ r \in DOMAIN recorders
    /\ recorders[r].state = "flushed"
    /\ recorders' = [recorders EXCEPT ![r] = [state |-> "stopped",
                                              file |-> [emitted |-> TRUE,
                                                        chunks |-> chunksRef]]]
    /\ isRecordingRef' = FALSE
    /\ recordingStatus' = [isRecording |-> FALSE, timeLeft |-> Rat(0, 1)]
    /\ UNCHANGED <<shaderCode, timeoutRef, now, error, gpuVars, frameVars,
                   recorderRef, chunksRef, recordingConfigRef,
                   recordedFramesRef, stills, sessionFrames, paramVars, frame, texVars,
                   fnVars>>
\* ------------------------------------------------------ parameter changes
\* prev.map of handleFloatChange
floatChanged(ps, id, newVal) ==
    [i \in DOMAIN ps |->
        IF ps[i].id = id /\ ps[i].type = "float"
        THEN [ps[i] EXCEPT !.value = newVal] ELSE ps[i]]

\* the three parseInt(hex.slice(..), 16) / 255 of handleColorChange, for the
\* colours the model's picker offers
hexToColor(hex) ==
    CASE hex = "#000000" -> <<0, 0, 0>>
      [] hex = "#ffffff" -> <<100, 100, 100>>

colorChanged(ps, id, hex) ==
    [i \in DOMAIN ps |->
        IF ps[i].id = id /\ IsVec(ps[i].type)
        THEN [ps[i] EXCEPT !.value = hexToColor(hex)] ELSE ps[i]]

\* the updater of setDebugMode
debugModeSet(ps, mode) ==
    IF \E i \in DOMAIN ps : ps[i].id = "debugMode"
    THEN [i \in DOMAIN ps |->
            IF ps[i].id = "debugMode" THEN [ps[i] EXCEPT !.value = mode]
            ELSE ps[i]]
    ELSE Append(ps, [id |-> "debugMode", type |-> "float", value |-> mode])

\* setParams(next) and the effect that copies params into paramsRef
setParams(next) ==
    /\ params' = next
    /\ paramsRef' = next
    /\ UNCHANGED <<appVars, gpuVars, frameVars, recVars, frame, texVars,
                   fnVars>>

\* slider and picker inputs the model offers
FloatInputs == {[id |-> "animSpeed", value |-> 100],
                [id |-> "baseColor", value |-> 100]}
ColorInputs == {[id |-> "baseColor", hex |-> "#000000"],
                [id |-> "animSpeed", hex |-> "#ffffff"]}
DebugModes == {0, 4}

handleFloatChange(id, newVal) == setParams(floatChanged(params, id, newVal))
handleColorChange(id, hex) == setParams(colorChanged(params, id, hex))
setDebugMode(mode) == setParams(debugModeSet(params, mode))

\* ------------------------------------------------------ debounced editing
\* handleCodeChange: the pending timer is cleared and a new one is set
handleCodeChange(newCode) ==
    /\ timeoutRef' = [code |-> newCode, deadline |-> now + DebounceMs]
    /\ UNCHANGED <<shaderCode, now, error, recordingStatus, gpuVars,
                   frameVars, recVars, paramVars, frame, texVars,
                   fnVars>>

\* The timer callback runs, no earlier than its deadline: setShaderCode.
TimerFire ==
    /\ timeoutRef # NoTimer
    /\ now >= timeoutRef.deadline
    /\ timeoutRef' = NoTimer
    /\ IF timeoutRef.code # shaderCode
       THEN /\ setShaderCodeEnabled(timeoutRef.code)
            /\ setShaderCode(timeoutRef.code)
       ELSE UNCHANGED <<shaderCode, compiling>>
    /\ UNCHANGED <<now, error, recordingStatus, initPc, isMountedRef,
                   deviceRef, contextRef, uniformBufferRef,
                   defaultNoiseTextureRef, integratorPipelineRef,
                   displayPipelineRef, requestRef, frameVars, recVars,
                   paramVars, frame, texVars,
                   fnVars>>

\* time passes
Tick(d) ==
    /\ now + d <= MaxTime
    /\ now' = now + d
    /\ UNCHANGED <<shaderCode, timeoutRef, error, recordingStatus, gpuVars,
                   frameVars, recVars, paramVars, frame, texVars,
                   fnVars>>

\* ---------------------------------------------------------- specifications
GpuInit == InitDevice \/ InitFail \/ InitNoise
Compile == \E i \in 1 .. MaxInFlight : CompileFinish(i)
Frame == \E t \in WallTimes : Render(t)
Pointer ==
    \/ handlePointerDown
    \/ \E x \in PointerXs : handlePointerMove(x)
    \/ handlePointerUp
    \/ handleWheel
Layout == \E size \in ClientSizes : Resize(size)
Edit == \E code \in Sources : ShaderCodeChange(code)
Capture == \E q \in Qualities : capture(q)
Recording ==
    \/ \E config \in Configs : startVideo(config)
    \/ stopVideo
    \/ \E r \in 1 .. MaxRecorders : \E size \in {0, 1} : ondataavailable(r, size)
    \/ \E r \in 1 .. MaxRecorders : onstop(r)
Texture ==
    \/ \E file \in ImageFiles : loadTexture(file)
    \/ \E i \in 1 .. MaxLoads : \E outcome \in LoadOutcomes :
           loadTextureDone(i, outcome)
Params ==
    \/ \E in \in FloatInputs : handleFloatChange(in.id, in.value)
    \/ \E in \in ColorInputs : handleColorChange(in.id, in.hex)
    \/ \E mode \in DebugModes : setDebugMode(mode)
Debounce ==
    \/ \E code \in Sources : handleCodeChange(code)
    \/ TimerFire
    \/ \E d \in Delays : Tick(d)

Next ==
    \/ GpuInit \/ Compile \/ Edit \/ Frame \/ Pointer \/ Layout
    \/ Capture \/ Recording \/ Params \/ Texture \/ Unmount

\* the whole program
Spec == Init /\ [][Next]_vars

\* GPU initialisation that succeeds
GpuInitOk == InitDevice \/ InitNoise
\* frames at one wall-clock instant
FrameNow == Render(7)
\* pointer input at one pointer position
PointerHere ==
    handlePointerDown \/ handlePointerMove(0) \/ handlePointerUp \/ handleWheel
\* one recording session of one configuration, whose recorder delivers data
RecordingOne ==
    \/ (Len(recorders) = 0 /\ startVideo([fps |-> 1, duration |-> 1]))
    \/ stopVideo
    \/ ondataavailable(1, 1)
    \/ onstop(1)

\* shader compilation and the frame loop
NextCompile == GpuInit \/ Compile \/ Edit \/ Frame
SpecCompile == Init /\ [][NextCompile]_vars

\* initialisation, compilation and the frame loop around a teardown
NextTeardown == GpuInit \/ Compile \/ Edit \/ Frame \/ Unmount
SpecTeardown == Init /\ [][NextTeardown]_vars

\* the frame loop under every event that decides the output size or
\* resets the accumulation
NextFrame ==
    \/ GpuInitOk \/ Compile \/ ShaderCodeChange("warn") \/ FrameNow
    \/ PointerHere \/ Layout \/ capture(1) \/ RecordingOne
SpecFrame == Init /\ [][NextFrame]_vars

\* recording sessions
NextRec == GpuInitOk \/ Compile \/ Frame \/ Recording \/ capture(1)
SpecRec == Init /\ [][NextRec]_vars

\* still captures of either quality
NextCapture == GpuInitOk \/ Compile \/ Frame \/ Layout \/ Capture \/ handleWheel
SpecCapture == Init /\ [][NextCapture]_vars

\* calculateUniformLayout on its own
SpecLayout == InitLayout /\ [][LayoutReturn]_vars

\* the uniform pack on its own
SpecPack == InitPack /\ [][PackReturn]_vars

\* texture loads beside the frame loop
NextTexture == GpuInit \/ Compile \/ FrameNow \/ Texture
SpecTexture == Init /\ [][NextTexture]_vars

\* combine_reservoirs on its own
SpecReservoir == InitReservoir /\ [][CombineReturn]_vars

\* the integrator's fragment shader on its own
SpecPixel == InitPixel /\ [][PixelReturn]_vars

\* parameter changes
NextParams == GpuInitOk \/ Compile \/ FrameNow \/ Pointer \/ Params
SpecParams == Init /\ [][NextParams]_vars

\* debounced shader editing, with the clock
NextDebounce == GpuInit \/ Compile \/ Debounce
SpecDebounce == Init /\ [][NextDebounce]_vars
\* ================================================================ claims
\* the frame-loop callback of this step rendered a frame
Rendered == frame'.n # frame.n
\* the i-th suspended compilePipeline call resumed in this step
Resumed(i) == compiling' = RemoveAt(compiling, i)
ReportsError(code) == \E k \in DOMAIN Messages(code) : Messages(code)[k] = "error"

\* C1: a compilation that reports a message of error severity builds no
\* pipeline: both pipeline refs keep their value, frameIndex is not reset,
\* the host holds a 'compilation' error of that source, and every rendered
\* frame uses the pipelines the refs hold.
C1_FailedCompileKeepsPipelines ==
    [][ /\ \A i \in DOMAIN compiling :
             (Resumed(i) /\ ReportsError(compiling[i].code)) =>
                 /\ integratorPipelineRef' = integratorPipelineRef
                 /\ displayPipelineRef' = displayPipelineRef
                 /\ frameIndexRef' = frameIndexRef
                 /\ error'.type = "compilation"
                 /\ error'.code = compiling[i].code
        /\ Rendered =>
                 /\ frame'.integratorPipe = integratorPipelineRef
                 /\ frame'.displayPipe = displayPipelineRef ]_vars

\* C1 witness: the failed compilation of "bad" is over, the pipelines of the
\* boilerplate are still the active ones and frames were rendered with them
C1_Witness ==
    /\ shaderCode = "bad" /\ compiling = << >>
    /\ error.type = "compilation" /\ error.code = "bad"
    /\ integratorPipelineRef.module = "boiler"
    /\ displayPipelineRef.module = "boiler"
    /\ frame.rendered /\ frame.integratorPipe.module = "boiler"
    /\ frameIndexRef >= 2

\* C2: a compilation without a message of error severity replaces both
\* pipelines by ones built from its source, sets frameIndex to 0 and clears
\* the host's error; a frame rendered while frameIndex is 0 passes 0, and
\* nothing but a rendered frame raises frameIndex.
C2_SuccessfulCompileReplacesPipelines ==
    [][ /\ \A i \in DOMAIN compiling :
             (Resumed(i) /\ ~ReportsError(compiling[i].code)) =>
                 /\ integratorPipelineRef' =
                        [module |-> compiling[i].code, entryPoint |-> "fs_main"]
                 /\ displayPipelineRef' =
                        [module |-> compiling[i].code, entryPoint |-> "fs_display"]
                 /\ frameIndexRef' = 0
                 /\ error' = NoError
        /\ (Rendered /\ frameIndexRef = 0) => frame'.uniformData[3] = 0
        /\ frameIndexRef' > frameIndexRef => Rendered ]_vars

\* C2 witness: "warn" (a warning, no error) was submitted and compiled; its
\* pipelines are active, the error is cleared and the frame rendered with
\* them passed frameIndex 0
C2_Witness ==
    /\ shaderCode = "warn" /\ compiling = << >>
    /\ integratorPipelineRef = [module |-> "warn", entryPoint |-> "fs_main"]
    /\ displayPipelineRef = [module |-> "warn", entryPoint |-> "fs_display"]
    /\ error = NoError
    /\ frame.rendered /\ frame.integratorPipe.module = "warn"
    /\ frame.uniformData[3] = 0 /\ frameIndexRef = 1
\* the size, the frameIndex and the elapsed time a rendered frame passed
SizeOf(f) == Size(f.uniformData[0], f.uniformData[1])
IndexOf(f) == f.uniformData[3]
ElapsedOf(f) == f.uniformData[2]
ClientPixels == Size(clientSize.w * Dpr, clientSize.h * Dpr)
\* a compilation without error message resumed in this step
CompiledOk ==
    \E i \in DOMAIN compiling : Resumed(i) /\ ~ReportsError(compiling[i].code)
DragMove == cameraState.isDragging /\ \E x \in PointerXs : handlePointerMove(x)

\* C3 as stated: with no reset since the previous rendered frame (frameIndex
\* is still that frame's index plus one) and the canvas at the on-screen
\* size, the next rendered frame passes the previous index plus one.
C3_OnlyListedEventsReset ==
    [][ (/\ Rendered /\ frame.rendered
         /\ frameIndexRef = IndexOf(frame) + 1
         /\ canvas = ClientPixels)
        => IndexOf(frame') = IndexOf(frame) + 1 ]_vars

\* C3 amended: a frame resets frameIndex exactly when its output size
\* differs from the size the canvas has, or a history texture is missing; it
\* then passes 0, and otherwise the value frameIndex has, and leaves
\* frameIndex one greater than what it passed.  Outside frames, frameIndex
\* changes only to 0 and only by a successful compilation, a pointer move
\* while dragging, or a wheel event, each of which sets it to 0.  While
\* frameIndex is not 0 it is the last rendered frame's index plus one.
C3_ResetsAndIncrements ==
    [][ /\ Rendered =>
             /\ frame'.recreated =
                    (\/ SizeOf(frame') # canvas
                     \/ historyTextureARef = NoTexture
                     \/ historyTextureBRef = NoTexture)
             /\ IndexOf(frame') = IF frame'.recreated THEN 0 ELSE frameIndexRef
             /\ frameIndexRef' = IndexOf(frame') + 1
        /\ (~Rendered /\ frameIndexRef' # frameIndexRef) =>
             /\ frameIndexRef' = 0
             /\ CompiledOk \/ DragMove \/ handleWheel
        /\ (CompiledOk \/ DragMove \/ handleWheel) => frameIndexRef' = 0
        /\ (frame.rendered /\ frameIndexRef # 0) =>
             frameIndexRef = IndexOf(frame) + 1 ]_vars

\* C3 witness: a capture frame was rendered at 3840 x 2160 on a canvas of
\* another size: its history textures were recreated and it passed 0
C3_Witness ==
    /\ frame.rendered /\ frame.capture /\ frame.recreated
    /\ SizeOf(frame) = CaptureSize /\ IndexOf(frame) = 0
    /\ ~frame.recording /\ stills = 1 /\ frameIndexRef = 1
\* the float index of parameter p in the frame loop's layout
SlotOf(p) == layout.offsetMap[p.id] \div 4
\* uniform data u holds the value of parameter p at p's offset
Holds(u, p) ==
    IF p.type = "float" THEN u[SlotOf(p)] = p.value
    ELSE /\ u[SlotOf(p)] = p.value[1]
         /\ u[SlotOf(p) + 1] = p.value[2]
         /\ u[SlotOf(p) + 2] = p.value[3]

\* C4: a step that changes the parameter list (slider, colour picker,
\* setDebugMode) or moves the pointer while not dragging leaves frameIndex
\* as it is, and every rendered frame writes the value each parameter has
\* at that moment at the parameter's offset of the uniform data.
C4_ParamChangesKeepFrameIndex ==
    [][ /\ (\/ params' # params
            \/ (~cameraState.isDragging /\ mouseState'.x # mouseState.x))
           => frameIndexRef' = frameIndexRef
        /\ Rendered =>
             \A i \in DOMAIN params : Holds(frame'.uniformData, params[i]) ]_vars

\* C4 witness: after changes of animSpeed, baseColor and debugMode and a
\* hover move, a frame was rendered that continued the accumulation and
\* holds the new values at float 12, 16..18 and 23
C4_Witness ==
    /\ frame.rendered /\ IndexOf(frame) >= 1 /\ ~frame.recreated
    /\ params[1].value = 100 /\ frame.uniformData[12] = 100
    /\ params[5].value = <<0, 0, 0>> /\ frame.uniformData[16] = 0
    /\ params[9].value = 4 /\ frame.uniformData[23] = 4
    /\ mouseState.x = 1 /\ frame.uniformData[8] = 1

\* capture, record or screen: what decided the output size of frame f
ModeOf(f) ==
    IF f.capture THEN "capture" ELSE IF f.recording THEN "record" ELSE "screen"

\* C5 as stated: the first frame rendered in another mode than the frame
\* before it finds both history textures recreated at its output size and
\* passes frameIndex 0.
C5_ModeChangeRecreatesHistory ==
    [][ (Rendered /\ frame.rendered /\ ModeOf(frame') # ModeOf(frame)) =>
            /\ frame'.recreated
            /\ historyTextureARef'.size = SizeOf(frame')
            /\ historyTextureBRef'.size = SizeOf(frame')
            /\ IndexOf(frame') = 0 ]_vars

\* C10 as stated: a frame rendered while recording is active has output
\* size 1920 x 1080.
C10_RecordingPinsOutputSize ==
    (frame.rendered /\ frame.recording) => SizeOf(frame) = RecordSize
\* C7: a frame rendered in recording mode passes, as elapsed time, the
\* number of frames rendered in recording mode since the most recent
\* startVideo divided by that recording's fps, whatever its wall-clock time.
C7_RecordingTimelineIsFrameCountOverFps ==
    [][ (Rendered /\ isRecordingRef) =>
            /\ RatEq(ElapsedOf(frame'),
                     Rat(sessionFrames, recordingConfigRef.fps))
            /\ sessionFrames' = sessionFrames + 1 ]_vars

\* C7 witness: the second frame (k = 1) of a recording at 2 fps was
\* rendered and passed the elapsed time 1/2
C7_Witness ==
    /\ frame.rendered /\ frame.recording /\ isRecordingRef
    /\ recordingConfigRef.fps = 2 /\ sessionFrames = 2
    /\ RatEq(ElapsedOf(frame), Rat(1, 2))

\* C8 as stated: a recording of duration D at rate F renders exactly D * F
\* frames in recording mode, so never more than D * F.
C8_RendersDurationTimesFpsFrames ==
    sessionFrames <= recordingConfigRef.duration * recordingConfigRef.fps

\* C9 as stated needs every started recording to end once frames and
\* recorder events are scheduled.  The frame loop and stopVideo reach only
\* the recorder recorderRef holds, and the frame loop's duration check runs
\* only while isRecordingRef is set; so every recorder in state 'recording'
\* must be that recorder, with the flag set.
C9_EveryRecordingCanEnd ==
    \A r \in DOMAIN recorders :
        recorders[r].state = "recording" => (r = recorderRef /\ isRecordingRef)
\* C6 as stated: when the debounce timer of a burst fires (500 ms after the
\* burst's last edit) with a text that differs from the current source,
\* exactly one compilation is started, and it compiles that text.
C6_BurstCompilesLastTextOnce ==
    [][ (timeoutRef # NoTimer /\ timeoutRef' = NoTimer
         /\ timeoutRef.code # shaderCode) =>
            /\ Len(compiling') = Len(compiling) + 1
            /\ compiling'[Len(compiling')].code = timeoutRef.code ]_vars
\* C11: a frame rendered while a capture request is pending is rendered at
\* 3840x2160 whatever the client size, produces one still image and clears
\* the request; a frame rendered with no request pending is not in capture
\* mode and produces none; and nothing but a rendered frame or another
\* capture call changes the pending request (a frame skipped because a
\* pipeline is missing leaves it pending).
C11_CaptureServicedByNextRenderedFrame ==
    [][ /\ (Rendered /\ capturePendingRef > 0) =>
              /\ frame'.capture /\ SizeOf(frame') = CaptureSize
              /\ stills' = stills + 1
              /\ capturePendingRef' = 0
        /\ (Rendered /\ capturePendingRef = 0) =>
              /\ ~frame'.capture /\ stills' = stills
              /\ capturePendingRef' = 0
        /\ (~Rendered /\ ~(\E q \in Qualities : capture(q))) =>
              /\ capturePendingRef' = capturePendingRef
              /\ stills' = stills ]_vars

\* C11 witness: a request made before any pipeline existed was serviced by
\* the first rendered frame, at 3840x2160, on a smaller canvas
C11_Witness ==
    /\ frame.rendered /\ frame.capture /\ IndexOf(frame) = 0
    /\ SizeOf(frame) = CaptureSize /\ ClientPixels # CaptureSize
    /\ stills = 1 /\ capturePendingRef = 0
\* the capture requests the renderer still has to service
Owed == IF capturePendingRef > 0 THEN 1 ELSE 0

\* C12 as stated: the still files produced equal the capture requests made
\* once none is pending, so every capture call raises the number of files
\* produced or still owed by one.
C12_EveryCaptureProducesAFile ==
    [][ (\E q \in Qualities : capture(q)) =>
            Owed' + stills' = Owed + stills + 1 ]_vars
\* the parameters of a call, by position
OffsetIn(call, i) == call.result.offsetMap[call.params[i].id]
EndIn(call, i) == OffsetIn(call, i) + ByteSize(call.params[i].type)
\* the running offset before parameter i: the start offset, or the end of
\* the parameter before it
RunningIn(call, i) == IF i = 1 THEN call.startOffset ELSE EndIn(call, i - 1)
LastIn(call) == RunningIn(call, Len(call.params) + 1)

\* C13: calculateUniformLayout gives every parameter, in list order, the
\* smallest multiple of its alignment that is not below the running offset
\* and advances the running offset by the parameter's size; the size
\* returned is the final running offset rounded up to a multiple of 16; the
\* byte ranges of distinct parameters do not overlap; and the three examples
\* of the claim evaluate as stated.
C13_LayoutIsMinimalAlignedPacking ==
    /\ layoutCall.result # NoLayout =>
          LET c == layoutCall
              n == Len(c.params)
          IN  /\ DOMAIN c.result.offsetMap = {c.params[i].id : i \in 1 .. n}
              /\ \A i \in 1 .. n :
                    LET a == IF c.params[i].type = "float" THEN 4 ELSE 16
                    IN  /\ OffsetIn(c, i) % a = 0
                        /\ OffsetIn(c, i) >= RunningIn(c, i)
                        /\ OffsetIn(c, i) - RunningIn(c, i) < a
                        /\ EndIn(c, i) - OffsetIn(c, i) = a
              /\ c.result.size % 16 = 0
              /\ c.result.size >= LastIn(c)
              /\ c.result.size - LastIn(c) < 16
              /\ \A i, j \in 1 .. n :
                    i < j => EndIn(c, i) <= OffsetIn(c, j)
    /\ calculateUniformLayout(<<[id |-> "a", type |-> "float", value |-> 0]>>, 48)
          = [size |-> 64, offsetMap |-> [k \in {"a"} |-> 48]]
    /\ calculateUniformLayout(<<[id |-> "c", type |-> "color", value |-> 0]>>, 0)
          = [size |-> 16, offsetMap |-> [k \in {"c"} |-> 0]]
    /\ calculateUniformLayout(<<[id |-> "a", type |-> "float", value |-> 0],
                                [id |-> "b", type |-> "color", value |-> 0]>>, 0)
          = [size |-> 32, offsetMap |-> [k \in {"a", "b"} |->
                                            IF k = "a" THEN 0 ELSE 16]]

\* C13 witness: the call with [float a, color b, float c] at 6 has returned
\* a = 8, b = 16, c = 32 and size 48 (padding before a, before b and at
\* the end)
C13_Witness ==
    /\ layoutCall.startOffset = 6
    /\ Len(layoutCall.params) = 3
    /\ layoutCall.params[1].type = "float"
    /\ layoutCall.params[2].type = "color"
    /\ layoutCall.params[3].type = "float"
    /\ layoutCall.result = [size |-> 48,
                            offsetMap |-> [k \in {"a", "b", "c"} |->
                                IF k = "a" THEN 8 ELSE IF k = "b" THEN 16 ELSE 32]]
\* the value a packed buffer holds for parameter p under the layout lay
StoredAt(data, lay, p) ==
    LET at == lay.offsetMap[p.id] \div 4
    IN  IF p.type = "float"
        THEN at \in DOMAIN data /\ data[at] = p.value
        ELSE \A k \in 0 .. 2 :
                 at + k \in DOMAIN data /\ data[at + k] = p.value[k + 1]

\* C14 as stated: no frame packs a parameter list whose layout from the
\* 48-byte header exceeds the 128 bytes of the uniform block, and a pack
\* holds the value of every parameter.
C14_OversizeLayoutIsRejected ==
    packCall.result # NoPack =>
        LET lay == calculateUniformLayout(packCall.params, STANDARD_HEADER_SIZE)
        IN  /\ lay.size <= TOTAL_BUFFER_SIZE
            /\ \A i \in DOMAIN packCall.params :
                  StoredAt(packCall.result, lay, packCall.params[i])
\* C15 as stated: a load whose decode or upload fails leaves userTextureRef
\* as it was, reports nothing through onError and leaves the frame loop
\* scheduled; a load that succeeds stores its texture.
C15_FailedLoadKeepsUserTexture ==
    [][ /\ (\E i \in DOMAIN loading : \E outcome \in LoadFailures :
               loadTextureDone(i, outcome)) =>
              /\ userTextureRef' = userTextureRef
              /\ error' = error
              /\ requestRef' = requestRef
        /\ \A i \in DOMAIN loading :
              loadTextureDone(i, "ok") =>
                  userTextureRef' = [file |-> loading[i], valid |-> TRUE] ]_vars
\* the position of a statement in the step list of a frame (0 if absent)
StepAt(f, name) ==
    IF \E k \in DOMAIN f.steps : f.steps[k] = name
    THEN CHOOSE k \in DOMAIN f.steps : f.steps[k] = name
    ELSE 0

\* C16 as stated: in every rendered frame the servicing of a pending capture
\* and the servicing of an active recording both come after the submission
\* of the frame's command buffer.
C16_ServicingFollowsSubmission ==
    frame.rendered =>
        \A k \in DOMAIN frame.steps :
            frame.steps[k] \in {"serviceCapture", "serviceRecording"} =>
                k > StepAt(frame, "submit")
\* C17: every rendered frame leaves two distinct history textures of equal
\* size, the one it wrote in slot A and its source in slot B; a frame that
\* does not recreate them has exchanged the two slots; a frame rendered with
\* frameIndex > 0 reads, as integrator input, the texture the previous
\* rendered frame wrote; a frame rendered with frameIndex 0 reads the
\* default noise texture.
C17_PingPongFeedsPreviousFrame ==
    [][ Rendered =>
          /\ historyTextureARef' # NoTexture /\ historyTextureBRef' # NoTexture
          /\ historyTextureARef' # historyTextureBRef'
          /\ historyTextureARef'.size = historyTextureBRef'.size
          /\ historyTextureARef' = frame'.dest
          /\ frame'.input # frame'.dest
          /\ ~frame'.recreated =>
                /\ historyTextureARef' = historyTextureBRef
                /\ historyTextureBRef' = historyTextureARef
          /\ IndexOf(frame') > 0 =>
                /\ frame.rendered
                /\ frame'.input = frame.dest
                /\ frame'.input = historyTextureBRef'
          /\ IndexOf(frame') = 0 => frame'.input = NoiseTexture ]_vars

\* C17 witness: the third frame of an accumulation (frameIndex 2) read the
\* history texture that is now in slot B and wrote the one now in slot A
C17_Witness ==
    /\ frame.rendered /\ IndexOf(frame) = 2
    /\ frame.input # NoiseTexture
    /\ frame.input = historyTextureBRef
    /\ frame.dest = historyTextureARef
    /\ historyTextureARef # historyTextureBRef

\* C18 as stated: one fixed history texture is the source of every frame
\* rendered with an even frameIndex and the other one of every frame
\* rendered with an odd frameIndex.  The first frame after the textures are
\* created has frameIndex 0 and reads from the first one created, so the
\* fixed assignment is: even frameIndex, first texture.
C18_SourceFollowsFrameIndexParity ==
    frame.rendered =>
        (IndexOf(frame) % 2 = 0 <=> frame.source.label = "t1")
\* C19: in every rendered frame the integrator pass is encoded before the
\* display pass, both are encoded before the frame's single submission, the
\* swap and the frameIndex increment follow the submission, and the display
\* pass reads the texture the integrator pass of this frame wrote, which is
\* not the texture the integrator read.
C19_DisplayReadsThisFramesIntegratorOutput ==
    frame.rendered =>
        /\ 0 < StepAt(frame, "encodeIntegrator")
        /\ StepAt(frame, "encodeIntegrator") < StepAt(frame, "encodeDisplay")
        /\ StepAt(frame, "encodeDisplay") < StepAt(frame, "submit")
        /\ Cardinality({k \in DOMAIN frame.steps : frame.steps[k] = "submit"}) = 1
        /\ StepAt(frame, "submit") < StepAt(frame, "swap")
        /\ StepAt(frame, "submit") < StepAt(frame, "incrementFrameIndex")
        /\ frame.displayInput = frame.dest
        /\ frame.displayInput # frame.source
        /\ frame.displayInput # frame.input

\* C19 witness: a frame with frameIndex 1, whose integrator read the
\* previous frame's texture, was displayed from the texture it wrote
C19_Witness ==
    /\ frame.rendered /\ IndexOf(frame) = 1
    /\ frame.input = frame.source
    /\ frame.displayInput = frame.dest
    /\ frame.dest = historyTextureARef
    /\ frameIndexRef = 2
\* C20: combine_reservoirs leaves in r the sample count r.M + other.M,
\* whether the combined weight is degenerate (at most 1e-6) or not and
\* whichever sample is kept.
C20_CombinePreservesSampleCount ==
    reservoirCall.result # NoReservoir =>
        reservoirCall.result.M = reservoirCall.r.M + reservoirCall.other.M

\* C20 witness: a combine that took the degenerate-weight branch (combined
\* weight 1e-6) returned M = 2 + 3
C20_Witness ==
    /\ reservoirCall.result # NoReservoir
    /\ reservoirCall.result.w_sum <= DegenerateW
    /\ reservoirCall.other.w_sum > 0
    /\ reservoirCall.r.M = 2 /\ reservoirCall.other.M = 3
    /\ reservoirCall.result.M = 5
\* the weight the claims expect a combine to add: o.w_sum itself unless it
\* exceeds both 15 * r.w_sum and the floor 0.1, and then the larger of those
ClampedWeight(r, o) ==
    IF o.w_sum <= 15 * r.w_sum \/ o.w_sum <= 100000 THEN o.w_sum
    ELSE IF 15 * r.w_sum >= 100000 THEN 15 * r.w_sum ELSE 100000

\* C21: for reservoirs r and o (weights are not negative), combine_reservoirs
\* leaves a w_sum that is not below r.w_sum and not negative, and what it
\* adds is min(o.w_sum, max(15 * r.w_sum, 0.1)); when o.w_sum is above that
\* cap, less than o.w_sum is added.
C21_CombineAddsClampedWeight ==
    reservoirCall.result # NoReservoir =>
        LET r == reservoirCall.r
            o == reservoirCall.other
            new == reservoirCall.result
        IN  /\ new.w_sum >= r.w_sum
            /\ new.w_sum >= 0
            /\ new.w_sum - r.w_sum = ClampedWeight(r, o)
            /\ (o.w_sum > 15 * r.w_sum /\ o.w_sum > 100000) =>
                   new.w_sum - r.w_sum < o.w_sum

\* C21 witness: r.w_sum = 1 and o.w_sum = 20 gave w_sum = 16 (15 added)
C21_Witness ==
    /\ reservoirCall.result # NoReservoir
    /\ reservoirCall.r.w_sum = 1000000
    /\ reservoirCall.other.w_sum = 20000000
    /\ reservoirCall.result.w_sum = 16000000
    /\ reservoirCall.randVal = Rat(9, 10)

\* C22: after combine_reservoirs r.y is o.y if the new w_sum is at most 1e-6
\* or the draw is strictly below clamped(o.w_sum) / new w_sum, and is the old
\* r.y otherwise; and r = {w_sum 1, M 1, y A}, o = {w_sum 20, M 1, y B} with
\* draw 0.5 give {w_sum 16, M 2, y B}.
C22_CombineSelectsSample ==
    /\ reservoirCall.result # NoReservoir =>
          LET r == reservoirCall.r
              o == reservoirCall.other
              new == reservoirCall.result
              takes == \/ new.w_sum <= 1
                       \/ reservoirCall.randVal.num * new.w_sum
                            < ClampedWeight(r, o) * reservoirCall.randVal.den
          IN  new.y = IF takes THEN o.y ELSE r.y
    /\ combine_reservoirs([y |-> "A", w_sum |-> 1000000, M |-> 1],
                          [y |-> "B", w_sum |-> 20000000, M |-> 1], Rat(1, 2))
          = [y |-> "B", w_sum |-> 16000000, M |-> 2]

\* C22 witness: a draw of 0 against an incoming weight of 0 kept r.y (0 is
\* not strictly below 0 / 2e-6)
C22_Witness ==
    /\ reservoirCall.result # NoReservoir
    /\ reservoirCall.randVal = Rat(0, 1)
    /\ reservoirCall.other.w_sum = 0
    /\ reservoirCall.r.w_sum = 2
    /\ reservoirCall.result.y = reservoirCall.r.y
    /\ reservoirCall.result.y # reservoirCall.other.y
\* the combines of one pass in the log of a pixel
EntriesOf(log, pass) == {k \in DOMAIN log : log[k].pass = pass}
\* the reservoir the claims expect for a texel under a cap on M
Rebuilt(o, data, cap) ==
    /\ o.y = data.y
    /\ o.M <= cap /\ o.M <= data.a /\ (o.M = cap \/ o.M = data.a)
    /\ o.w_sum = data.y.lum * o.M

\* C23: the pixel's own stored reservoir is combined exactly when
\* frameIndex > 0 and the primary ray hit, before any neighbour, read at the
\* pixel itself with M clamped to 12 and w_sum = luminance(y) * M; at most 6
\* neighbours are combined, in the order they are sampled, each read at the
\* sampled coordinate clamped into the input texture, with M clamped to 8
\* and w_sum rebuilt, and only if its luminance differs from the centre's by
\* less than 0.2 relative to the larger of the two plus 0.1; when the
\* primary ray misses, nothing is combined.
C23_IntegratorReuse ==
    pixelCall.result # NoResult =>
        LET in == pixelCall
            log == pixelCall.result.combined
            c == pixelCall.result.centerLum
            T == EntriesOf(log, "temporal")
            S == EntriesOf(log, "spatial")
        IN  /\ (T # {}) <=> (in.frameIndex > 0 /\ in.hit)
            /\ \A k \in T :
                  /\ k = 1 /\ log[k].coord = in.x /\ in.x \in DOMAIN in.tex
                  /\ Rebuilt(log[k].o, in.tex[in.x], 12)
            /\ Cardinality(S) <= 6
            /\ \A k, l \in S : k < l => log[k].i < log[l].i
            /\ \A k \in S :
                  LET want == in.x + in.offsets[log[k].i]
                      l == log[k].o.y.lum
                      d == IF c >= l THEN c - l ELSE l - c
                  IN  /\ log[k].i \in 1 .. 6
                      /\ log[k].coord \in DOMAIN in.tex
                      /\ \A other \in DOMAIN in.tex :
                            (other - want) * (other - want)
                              >= (log[k].coord - want) * (log[k].coord - want)
                      /\ Rebuilt(log[k].o, in.tex[log[k].coord], 8)
                      /\ d * 10 < 2 * ((IF c >= l THEN c ELSE l) + 100000)
            /\ ~in.hit => log = << >>

\* C23 witness: in a frame with frameIndex 1 a pixel at the left edge that
\* hit a surface combined its stored reservoir with M clamped from 61 to 12
\* and then some, but not all, of its neighbours, one of them read at a
\* clamped coordinate
C23_Witness ==
    /\ pixelCall.result # NoResult
    /\ pixelCall.frameIndex = 1 /\ pixelCall.hit /\ pixelCall.x = 0
    /\ pixelCall.tex[0].a = MaxStoredM
    /\ pixelCall.offsets[1] = -1
    /\ Len(pixelCall.result.combined) \in 2 .. 6
    /\ pixelCall.result.combined[1].pass = "temporal"
    /\ pixelCall.result.combined[1].o.M = 12
    /\ pixelCall.result.combined[2].coord = 0

\* C30: the sample count a pixel writes to the history texture is between
\* 1 and 61 (0 is written only for a sample that fails validation), whatever
\* counts the texels it reads hold; in a frame with frameIndex 0 it is at
\* most 7.
C30_WrittenSampleCountIsBounded ==
    pixelCall.result # NoResult =>
        /\ pixelCall.result.out.a \in 0 .. 61
        /\ pixelCall.frameIndex = 0 => pixelCall.result.out.a <= 7

\* C30 witness: a pixel whose own and six neighbouring texels hold the
\* largest stored count wrote exactly 61
C30_Witness ==
    /\ pixelCall.result # NoResult
    /\ \A k \in DOMAIN pixelCall.tex : pixelCall.tex[k].a = MaxStoredM
    /\ Len(pixelCall.result.combined) = 7
    /\ pixelCall.result.out.a = 61
\* C24 as stated: once initWebGPU has finished and no compilation is in
\* flight, if the current shader source (the most recently submitted one)
\* compiles without error then both pipelines are the ones built from it,
\* whatever the order in which the compilations completed and whether or not
\* the source was submitted before the device was there.
C24_LatestSourceIsActive ==
    (initPc = "done" /\ compiling = << >> /\ ~ReportsError(shaderCode)) =>
        /\ integratorPipelineRef = createRenderPipeline(shaderCode, "fs_main")
        /\ displayPipelineRef = createRenderPipeline(shaderCode, "fs_display")
\* C25: every rendered frame uses an integrator pipeline and a display
\* pipeline that are both present and were built from the same shader
\* module by one compilation (entry points fs_main and fs_display); the two
\* pipeline references are never a pair mixed from two compilations.
C25_PipelinesAreOnePair ==
    /\ frame.rendered =>
          /\ frame.integratorPipe # NoPipeline
          /\ frame.displayPipe # NoPipeline
          /\ frame.integratorPipe.module = frame.displayPipe.module
          /\ frame.integratorPipe.entryPoint = "fs_main"
          /\ frame.displayPipe.entryPoint = "fs_display"
    /\ (integratorPipelineRef = NoPipeline) <=> (displayPipelineRef = NoPipeline)
    /\ integratorPipelineRef.module = displayPipelineRef.module

\* C25 witness: a frame rendered with the pair of a second successful
\* compilation while a third compilation is still in flight
C25_Witness ==
    /\ frame.rendered
    /\ frame.integratorPipe = createRenderPipeline("warn", "fs_main")
    /\ frame.displayPipe = createRenderPipeline("warn", "fs_display")
    /\ compiling # << >>
\* C26 as stated: whenever a recorder created by startVideo is in state
\* 'recording' the recording flag is set, under every interleaving of
\* startVideo, stopVideo, frames and recorder events; and the file of a
\* finished session holds only chunks that its own recorder delivered.
C26_RecordingFlagAndSessionChunks ==
    /\ (\E r \in DOMAIN recorders : recorders[r].state = "recording")
          => isRecordingRef
    /\ \A r \in DOMAIN recorders :
          recorders[r].state = "stopped" =>
              \A k \in DOMAIN recorders[r].file.chunks :
                  recorders[r].file.chunks[k].by = r
\* C27 as stated: once the cleanup of the renderer has run, no step
\* schedules an animation frame and no step renders a frame, also when
\* initWebGPU or a compilation was suspended at the moment of the cleanup.
C27_NoFrameAfterTeardown ==
    [][ ~isMountedRef => (~Rendered /\ (requestRef' => requestRef)) ]_vars
\* C28 as stated: while the on-screen size differs from 3840x2160, the frame
\* a still capture exports is rendered with frameIndex 0 and the noise
\* texture as input, and the frame rendered after a capture frame is
\* rendered with frameIndex 0 again, at a size other than 3840x2160.
C28_CaptureResetsTwice ==
    [][ (Rendered /\ ClientPixels # CaptureSize) =>
            /\ frame'.capture =>
                  (IndexOf(frame') = 0 /\ frame'.input = NoiseTexture)
            /\ (frame.rendered /\ frame.capture) =>
                  (IndexOf(frame') = 0 /\ SizeOf(frame') # CaptureSize) ]_vars
\* the floats of the uniform data a write of parameter p stores to
WrittenFloats(p) ==
    LET at == layout.offsetMap[p.id] \div 4
    IN  IF p.type = "float" THEN {at} ELSE {at, at + 1, at + 2}

\* C29: for every parameter list reached from the initial list by slider
\* changes, colour changes and setDebugMode, every parameter has an offset
\* in the layout the frame loop uses, that layout is the packing of the
\* current list from byte 48, every parameter's bytes lie in 48..123, so
\* every float a parameter write stores to is one of 12..30 (not the
\* header, not the audio slot 31, not outside the 32 floats), and a
\* rendered frame's slot 31 holds the audio level.
C29_ParamsStayInPackedRegion ==
    /\ \A ps \in {params, paramsRef} :
          /\ \A i \in DOMAIN ps :
                /\ ps[i].id \in DOMAIN layout.offsetMap
                /\ layout.offsetMap[ps[i].id] >= 48
                /\ layout.offsetMap[ps[i].id] + ByteSize(ps[i].type) <= 124
                /\ WrittenFloats(ps[i]) \subseteq 12 .. 30
          /\ calculateUniformLayout(ps, 48).offsetMap = layout.offsetMap
    /\ frame.rendered => frame.uniformData[31] = 0

\* C29 witness: after a slider change, a colour change and setDebugMode(4)
\* a frame was rendered whose last parameter float, 23, holds the debug
\* mode while slot 31 holds the audio level 0
C29_Witness ==
    /\ frame.rendered
    /\ Len(paramsRef) = 9
    /\ paramsRef[1].value = 100 /\ paramsRef[5].value = <<0, 0, 0>>
    /\ paramsRef[9].value = 4
    /\ frame.uniformData[23] = 4 /\ frame.uniformData[31] = 0
====
